---------------------------- MODULE Spec2Model ----------------------------
(***************************************************************************)
(* ZenRows PDF downloader: zenrows_pdf_downloader.py.                      *)
(*                                                                         *)
(* One run of the program is main() -> download_pdf() -> sys.exit().  The  *)
(* model follows a run statement by statement and lets the environment     *)
(* (argument count, upstream response, latency, transport failure, open    *)
(* and write failures of the output file) choose every outcome the code    *)
(* can meet.  Several runs follow each other on the same output path, the  *)
(* file system state being carried from one run to the next.               *)
(*                                                                         *)
(* Bytes are integers 0..255.  Console output is assumed to succeed; it is *)
(* recorded only where a claim names it (the usage text).                  *)
(***************************************************************************)
EXTENDS Integers, Sequences, FiniteSets, TLC

-----------------------------------------------------------------------------
(* Bounds of the model *)

\* number of consecutive runs of the program on the same output path
MaxRuns == 3
\* largest number of positional command-line arguments tried
MaxArgs == 4
\* largest number of bytes following the magic number in an upstream body
MaxTail == 1

-----------------------------------------------------------------------------
(* Program constants *)

\* len(sys.argv) required by main: program name + 3 positional arguments
ExpectedArgv == 4
\* timeout=60 of requests.get
Timeout == 60

\* b'%PDF'
Magic == <<37, 80, 68, 70>>

-----------------------------------------------------------------------------
(* Inputs the environment may supply *)

\* bytes that may follow the magic number: '-' and '\n'
TailBytes == {45, 10}

RECURSIVE SeqsUpTo(_, _)
SeqsUpTo(S, n) ==
    IF n = 0 THEN {<<>>}
    ELSE LET shorter == SeqsUpTo(S, n - 1)
         IN  shorter \cup {Append(s, b) : s \in shorter, b \in S}

\* bodies that begin with %PDF
PdfBodies == {Magic \o t : t \in SeqsUpTo(TailBytes, MaxTail)}

\* bodies that do not: empty, shorter than 4 bytes, wrong in the last byte,
\* wrong in the first byte, and %PDF not at offset 0 ("<%PDF")
OtherBodies ==
    {SubSeq(Magic, 1, k) : k \in 0..3}
        \cup {<<37, 80, 68, 60>>, <<80, 80, 68, 70>>, <<60>> \o Magic}

Bodies == PdfBodies \cup OtherBodies

Statuses == {200, 403}
ContentTypes == {"application/pdf", "text/html"}

NoResp == [got |-> FALSE, status |-> 0, ctype |-> "", body |-> <<>>]

Responses ==
    [got : {TRUE}, status : Statuses, ctype : ContentTypes, body : Bodies]

\* longest time requests.get waits on the socket: just inside and just past
\* the timeout
Latencies == {Timeout - 1, Timeout + 1}

\* the output path before the first run: absent, or present with old content
Absent == [exists |-> FALSE, data |-> <<>>]
InitFiles == {Absent, [exists |-> TRUE, data |-> <<60, 60>>]}

NoPrev ==
    [valid |-> FALSE, resp |-> NoResp, result |-> "none", exitCode |-> -1,
     raised |-> "none", opens |-> 0, file |-> Absent]

-----------------------------------------------------------------------------
VARIABLES
    run,          \* index of the current run, 1..MaxRuns
    argc,         \* number of positional arguments, len(sys.argv) - 1
    pc,           \* position of the run in the code
    file,         \* the output path: [exists, data]
    preFile,      \* the output path as it was when the run started
    elapsed,      \* longest time the upstream call waited on the socket
    resp,         \* response of requests.get, NoResp before it returns
    raised,       \* exception raised inside the try block, "none" if none
    handleOpen,   \* the file object f of the with statement is open
    netCalls,     \* calls of requests.get made in this run
    opens,        \* calls of open(output_path, 'wb') made in this run
    writes,       \* calls of f.write made in this run
    result,       \* return value of download_pdf: "none", "True", "False"
    exitCode,     \* process exit status, -1 while running
    escaped,      \* an exception left download_pdf uncaught
    usagePrinted, \* main printed the usage text
    prev          \* summary of the previous run

vars ==
    <<run, argc, pc, file, preFile, elapsed, resp, raised, handleOpen,
      netCalls, opens, writes, result, exitCode, escaped, usagePrinted, prev>>

-----------------------------------------------------------------------------
(* Pure functions of the code *)

\* operands of startswith exchanged: b'%PDF'.startswith(content)
StartsWithSwapped(b, p) == Len(p) >= Len(b) /\ SubSeq(p, 1, Len(b)) = b

\* bytes.startswith
StartsWith(b, p) == Len(b) >= Len(p) /\ SubSeq(b, 1, Len(p)) = p

\* the test of line 50 preceded by a status check
IsPdfAndOk(r) == r.status = 200 /\ StartsWith(r.body, Magic)

\* the test of line 50 on a response
IsPdf(r) == StartsWith(r.body, Magic)

\* the test of line 74 written len(sys.argv) < 4
ArgsAtLeast(n) == n + 1 >= ExpectedArgv

\* the test of line 74, n positional arguments
ArgsOk(n) == n + 1 = ExpectedArgv

\* timeout=600 in place of timeout=60
TimedOutLate(t) == t > 10 * Timeout

\* requests raises Timeout when the call waits longer than timeout=60
TimedOut(t) == t > Timeout

\* open(output_path, 'ab'): creates the file or keeps its content
OpenForAppend(f) == [exists |-> TRUE, data |-> f.data]

\* open(output_path, 'wb'): creates the file or truncates it to length 0
OpenForWrite(f) == [exists |-> TRUE, data |-> <<>>]

\* f.write(bytes[:4]): only the first chunk is written
WriteFirstChunk(f, bytes) ==
    [f EXCEPT !.data = f.data \o SubSeq(bytes, 1, IF Len(bytes) < 4 THEN Len(bytes) ELSE 4)]

\* f.write(bytes) at the end of the file just opened
WriteBytes(f, bytes) == [f EXCEPT !.data = f.data \o bytes]

\* open / write / close without with or finally: an exception skips close
ExitWithoutFinally(raising) == raising

\* state of the file handle when the with block is left; raising says
\* whether it is left by an exception
WithExit(raising) == FALSE

\* only the except clause of line 64
CatchesTimeoutOnly(exc) == exc = "Timeout"

\* the except clauses of lines 64-69: Timeout, then Exception
Catches(exc) == exc \in {"Timeout", "ConnectionError", "OSError"}

\* value returned by the except clause that catches exc
ExceptResult(exc) == "False"

\* sys.exit(0 if success else 1)
ExitStatus(res) == IF res = "True" THEN 0 ELSE 1

\* the request placed in a retry loop on timeout
CanRequestRetry ==
    \/ pc = "request"
    \/ pc = "return" /\ raised = "Timeout" /\ netCalls < 2

\* the single call of requests.get in download_pdf
CanRequest == pc = "request"

-----------------------------------------------------------------------------
Init ==
    /\ run = 1
    /\ argc \in 0..MaxArgs
    /\ pc = "main"
    /\ file \in InitFiles
    /\ preFile = file
    /\ elapsed = 0
    /\ resp = NoResp
    /\ raised = "none"
    /\ handleOpen = FALSE
    /\ netCalls = 0
    /\ opens = 0
    /\ writes = 0
    /\ result = "none"
    /\ exitCode = -1
    /\ escaped = FALSE
    /\ usagePrinted = FALSE
    /\ prev = NoPrev

\* An exception exc raised inside the try block of download_pdf: caught by
\* an except clause, which returns; otherwise it leaves download_pdf and
\* main and the interpreter ends the process with status 1.
Raise(exc) ==
    /\ raised' = exc
    /\ IF Catches(exc)
       THEN /\ result' = ExceptResult(exc)
            /\ pc' = "return"
            /\ UNCHANGED <<exitCode, escaped>>
       ELSE /\ escaped' = TRUE
            /\ exitCode' = 1
            /\ pc' = "exited"
            /\ UNCHANGED result

\* main, lines 74-78: wrong argument count
MainUsage ==
    /\ pc = "main"
    /\ ~ArgsOk(argc)
    /\ usagePrinted' = TRUE
    /\ exitCode' = 1
    /\ pc' = "exited"
    /\ UNCHANGED <<run, argc, file, preFile, elapsed, resp, raised,
                   handleOpen, netCalls, opens, writes, result, escaped, prev>>

\* main, lines 80-85: download_pdf is called
MainCall ==
    /\ pc = "main"
    /\ ArgsOk(argc)
    /\ pc' = "request"
    /\ UNCHANGED <<run, argc, file, preFile, elapsed, resp, raised,
                   handleOpen, netCalls, opens, writes, result, exitCode,
                   escaped, usagePrinted, prev>>

\* requests.get returns a response within the timeout
GetResponse ==
    /\ CanRequest
    /\ \E t \in Latencies, r \in Responses :
          /\ ~TimedOut(t)
          /\ elapsed' = t
          /\ resp' = r
    /\ netCalls' = netCalls + 1
    /\ pc' = "sniff"
    /\ UNCHANGED <<run, argc, file, preFile, raised, handleOpen, opens,
                   writes, result, exitCode, escaped, usagePrinted, prev>>

\* requests.get raises requests.exceptions.Timeout
GetTimeout ==
    /\ CanRequest
    /\ \E t \in Latencies :
          /\ TimedOut(t)
          /\ elapsed' = t
    /\ netCalls' = netCalls + 1
    /\ Raise("Timeout")
    /\ UNCHANGED <<run, argc, file, preFile, resp, handleOpen, opens,
                   writes, usagePrinted, prev>>

\* requests.get raises another exception (DNS, TLS, connection refused)
GetError ==
    /\ CanRequest
    /\ \E t \in Latencies :
          /\ ~TimedOut(t)
          /\ elapsed' = t
    /\ netCalls' = netCalls + 1
    /\ Raise("ConnectionError")
    /\ UNCHANGED <<run, argc, file, preFile, resp, handleOpen, opens,
                   writes, usagePrinted, prev>>

\* line 50, true branch
Accept ==
    /\ pc = "sniff"
    /\ IsPdf(resp)
    /\ pc' = "open"
    /\ UNCHANGED <<run, argc, file, preFile, elapsed, resp, raised,
                   handleOpen, netCalls, opens, writes, result, exitCode,
                   escaped, usagePrinted, prev>>

\* line 50, else branch, lines 58-62
Reject ==
    /\ pc = "sniff"
    /\ ~IsPdf(resp)
    /\ result' = "False"
    /\ pc' = "return"
    /\ UNCHANGED <<run, argc, file, preFile, elapsed, resp, raised,
                   handleOpen, netCalls, opens, writes, exitCode, escaped,
                   usagePrinted, prev>>

\* line 52: open succeeds
OpenOk ==
    /\ pc = "open"
    /\ opens' = opens + 1
    /\ file' = OpenForWrite(file)
    /\ handleOpen' = TRUE
    /\ pc' = "write"
    /\ UNCHANGED <<run, argc, preFile, elapsed, resp, raised, netCalls,
                   writes, result, exitCode, escaped, usagePrinted, prev>>

\* line 52: open raises OSError (unwritable path, missing directory)
OpenFail ==
    /\ pc = "open"
    /\ opens' = opens + 1
    /\ Raise("OSError")
    /\ UNCHANGED <<run, argc, file, preFile, elapsed, resp, handleOpen,
                   netCalls, writes, usagePrinted, prev>>

\* lines 53-57: the write completes, the with block closes f, True is returned
WriteOk ==
    /\ pc = "write"
    /\ writes' = writes + 1
    /\ file' = WriteBytes(file, resp.body)
    /\ handleOpen' = WithExit(FALSE)
    /\ result' = "True"
    /\ pc' = "return"
    /\ UNCHANGED <<run, argc, preFile, elapsed, resp, raised, netCalls,
                   opens, exitCode, escaped, usagePrinted, prev>>

\* line 53: the write (or the flush at close) raises OSError after k bytes
\* of the body have reached the file (k = Len: the error comes from close);
\* the with block closes f
WriteFail ==
    /\ pc = "write"
    /\ writes' = writes + 1
    /\ \E k \in 0..Len(resp.body) :
          file' = WriteBytes(file, SubSeq(resp.body, 1, k))
    /\ handleOpen' = WithExit(TRUE)
    /\ Raise("OSError")
    /\ UNCHANGED <<run, argc, preFile, elapsed, resp, netCalls, opens,
                   usagePrinted, prev>>

\* line 88
Exit ==
    /\ pc = "return"
    /\ exitCode' = ExitStatus(result)
    /\ pc' = "exited"
    /\ UNCHANGED <<run, argc, file, preFile, elapsed, resp, raised,
                   handleOpen, netCalls, opens, writes, result, escaped,
                   usagePrinted, prev>>

\* the program is started again on the same output path
NextRun ==
    /\ pc = "exited"
    /\ run < MaxRuns
    /\ run' = run + 1
    /\ argc' \in 0..MaxArgs
    /\ prev' = [valid |-> TRUE, resp |-> resp, result |-> result,
                exitCode |-> exitCode, raised |-> raised, opens |-> opens,
                file |-> file]
    /\ preFile' = file
    /\ pc' = "main"
    /\ elapsed' = 0
    /\ resp' = NoResp
    /\ raised' = "none"
    /\ handleOpen' = FALSE
    /\ netCalls' = 0
    /\ opens' = 0
    /\ writes' = 0
    /\ result' = "none"
    /\ exitCode' = -1
    /\ escaped' = FALSE
    /\ usagePrinted' = FALSE
    /\ UNCHANGED file

\* one step of a run
RunStep ==
    \/ MainUsage
    \/ MainCall
    \/ GetResponse
    \/ GetTimeout
    \/ GetError
    \/ Accept
    \/ Reject
    \/ OpenOk
    \/ OpenFail
    \/ WriteOk
    \/ WriteFail
    \/ Exit

Next == RunStep \/ NextRun

Spec == Init /\ [][Next]_vars

-----------------------------------------------------------------------------
TypeOK ==
    /\ run \in 1..MaxRuns
    /\ argc \in 0..MaxArgs
    /\ pc \in {"main", "request", "sniff", "open", "write", "return", "exited"}
    /\ file.exists \in BOOLEAN
    /\ resp \in Responses \cup {NoResp}
    /\ raised \in {"none", "Timeout", "ConnectionError", "OSError"}
    /\ handleOpen \in BOOLEAN
    /\ result \in {"none", "True", "False"}
    /\ exitCode \in {-1, 0, 1}

-----------------------------------------------------------------------------
(* Vocabulary of the properties, stated on bytes and not through the       *)
(* operators that model the code                                           *)

\* the body begins with the 4 bytes % P D F
BeginsPdf(b) ==
    /\ Len(b) >= 4
    /\ b[1] = 37
    /\ b[2] = 80
    /\ b[3] = 68
    /\ b[4] = 70

\* the first 4 bytes of a body (all of it when shorter)
First4(b) == SubSeq(b, 1, IF Len(b) < 4 THEN Len(b) ELSE 4)

\* the output path exists and holds exactly the bytes b
Holds(f, b) == f.exists /\ f.data = b

\* download_pdf has returned or the process has ended after calling it
CallOver == pc = "return" \/ (pc = "exited" /\ ~usagePrinted)

-----------------------------------------------------------------------------
\* C1: when the number of positional arguments is not 3, the run prints the
\* usage text and exits with code 1, and at no point of the run is there a
\* network call, an open of the output path or a write to it.
C1_UsageExit ==
    argc # 3 =>
        /\ netCalls = 0
        /\ opens = 0
        /\ writes = 0
        /\ ~handleOpen
        /\ file = preFile
        /\ pc \in {"main", "exited"}
        /\ pc = "exited" => usagePrinted /\ exitCode = 1

C1_Witness ==
    /\ pc = "exited"
    /\ argc = 4
    /\ usagePrinted
    /\ exitCode = 1
    /\ preFile.exists

\* C2 as stated: when the upstream body begins with %PDF, at process exit the
\* output path holds exactly the body and the exit code is 0.
C2_AlwaysSaved ==
    (pc = "exited" /\ resp.got /\ BeginsPdf(resp.body)) =>
        Holds(file, resp.body) /\ exitCode = 0

\* C2 amended: when the upstream body begins with %PDF and neither the open
\* of the output path nor the write raises, at process exit the output path
\* holds exactly the body and the exit code is 0; when the open or the write
\* raises, the exit code is 1.
C2_SavedUnlessIOError ==
    (pc = "exited" /\ resp.got /\ BeginsPdf(resp.body)) =>
        IF raised = "none"
        THEN Holds(file, resp.body) /\ exitCode = 0
        ELSE raised = "OSError" /\ exitCode = 1

C2_Witness ==
    /\ pc = "exited"
    /\ resp.got
    /\ BeginsPdf(resp.body)
    /\ Len(resp.body) > 4
    /\ raised = "none"
    /\ preFile.exists
    /\ Holds(file, resp.body)
    /\ exitCode = 0

\* C3: when the upstream body does not begin with %PDF (empty and shorter
\* than 4 bytes included), the output path is never opened or written, it
\* stays as it was before the run, and the run exits with code 1.
C3_RejectLeavesFile ==
    (resp.got /\ ~BeginsPdf(resp.body)) =>
        /\ opens = 0
        /\ writes = 0
        /\ ~handleOpen
        /\ file = preFile
        /\ pc \in {"sniff", "return", "exited"}
        /\ pc = "return" => result = "False"
        /\ pc = "exited" => exitCode = 1

C3_Witness ==
    /\ pc = "exited"
    /\ resp.got
    /\ resp.body = <<37, 80, 68>>
    /\ preFile.exists
    /\ file = preFile
    /\ exitCode = 1

\* C4: in every terminal state of a run the output path either holds the
\* complete response body or is in its pre-run state.
C4_AllOrNothing ==
    pc = "exited" => (file = preFile \/ (resp.got /\ Holds(file, resp.body)))

\* C5: when the upstream call exceeds the timeout of 60, exactly one request
\* has been made, no response is used, the output path is never opened or
\* written and keeps its pre-run state, and the run exits with code 1.
C5_Timeout ==
    elapsed > 60 =>
        /\ raised = "Timeout"
        /\ netCalls = 1
        /\ ~resp.got
        /\ opens = 0
        /\ writes = 0
        /\ file = preFile
        /\ result = "False"
        /\ pc \in {"return", "exited"}
        /\ pc = "exited" => exitCode = 1

C5_Witness ==
    /\ pc = "exited"
    /\ elapsed = 61
    /\ raised = "Timeout"
    /\ netCalls = 1
    /\ exitCode = 1
    /\ preFile.exists

\* C6: a run ends only through an explicit exit with code 0 or 1: every
\* error raised by the network call, the open or the write is caught in
\* download_pdf and gives the result False, no error escapes, a run that has
\* not exited can always take a step, and the exit code is 0 exactly when
\* download_pdf returned True.
C6_ExplicitExit ==
    /\ ~escaped
    /\ raised # "none" => result = "False"
    /\ pc # "exited" => ENABLED RunStep
    /\ pc = "exited" =>
          /\ exitCode \in {0, 1}
          /\ exitCode = 0 <=> result = "True"

C6_Witness ==
    /\ pc = "exited"
    /\ raised = "OSError"
    /\ opens = 1
    /\ writes = 0
    /\ result = "False"
    /\ exitCode = 1

\* C7: a call of download_pdf makes exactly one network request, never a
\* second one, opens and writes the output path at most once, and only when
\* the response body begins with %PDF.
C7_OneRequestOneWrite ==
    /\ netCalls <= 1
    /\ opens <= 1
    /\ writes <= 1
    /\ CallOver => netCalls = 1
    /\ (opens > 0 \/ writes > 0) => resp.got /\ BeginsPdf(resp.body)

C7_Witness ==
    /\ pc = "exited"
    /\ result = "True"
    /\ netCalls = 1
    /\ opens = 1
    /\ writes = 1

\* C8: when two runs in sequence on the same output path both succeed with
\* the same body, the output path after the second run holds exactly one
\* copy of the body, as it did after the first run.
C8_Idempotent ==
    (/\ pc = "exited"
     /\ prev.valid
     /\ prev.exitCode = 0
     /\ exitCode = 0
     /\ prev.resp.body = resp.body) =>
        Holds(file, resp.body) /\ file = prev.file

C8_Witness ==
    /\ pc = "exited"
    /\ prev.valid
    /\ prev.exitCode = 0
    /\ exitCode = 0
    /\ prev.resp.body = resp.body
    /\ Len(resp.body) > 4
    /\ Holds(file, resp.body)

\* C9: the file handle is open only between the open and the end of the
\* write of a response that begins with %PDF, and it is closed once the
\* write is left, normally or by an error, so that it is never open when
\* download_pdf has returned or the process has exited.
C9_ScopedHandle ==
    /\ handleOpen =>
          /\ pc = "write"
          /\ resp.got
          /\ BeginsPdf(resp.body)
    /\ pc \in {"return", "exited"} => ~handleOpen

C9_Witness ==
    /\ pc = "return"
    /\ raised = "OSError"
    /\ writes = 1
    /\ ~handleOpen

\* C10 as stated: two responses whose bodies share the first 4 bytes take
\* the same branch, write and return True or no write and return False,
\* whatever their status and content type; and a response with an error
\* status whose body begins with %PDF is saved and the run exits 0.
C10_SameOutcome ==
    /\ (/\ pc = "exited"
        /\ prev.valid
        /\ prev.resp.got
        /\ resp.got
        /\ First4(prev.resp.body) = First4(resp.body)) =>
          /\ prev.result = result
          /\ prev.exitCode = exitCode
          /\ result = "True" => Holds(file, resp.body)
          /\ result = "False" => opens = 0 /\ writes = 0
    /\ (pc = "exited" /\ resp.got /\ resp.status # 200 /\ BeginsPdf(resp.body)) =>
          Holds(file, resp.body) /\ exitCode = 0

\* C10 amended: the branch download_pdf takes depends only on the first 4
\* bytes of the body: a response is accepted (the output path is opened for
\* writing) exactly when its body begins with %PDF, whatever its status and
\* content type; two responses with the same first 4 bytes take the same
\* branch, and give the same result and exit code when the open and the
\* write end the same way (no error, or an error); a response with an error
\* status that begins with %PDF is saved with exit code 0 unless the open or
\* the write raises.
C10_First4Decides ==
    /\ (resp.got /\ pc \in {"return", "exited"}) =>
          /\ opens > 0 <=> BeginsPdf(resp.body)
          /\ raised = "none" => (result = "True" <=> BeginsPdf(resp.body))
          /\ raised # "none" => result = "False"
    /\ (/\ pc = "exited"
        /\ prev.valid
        /\ prev.resp.got
        /\ resp.got
        /\ First4(prev.resp.body) = First4(resp.body)) =>
          /\ prev.opens > 0 <=> opens > 0
          /\ prev.raised = raised =>
                prev.result = result /\ prev.exitCode = exitCode
    /\ (/\ pc = "exited"
        /\ resp.got
        /\ resp.status # 200
        /\ BeginsPdf(resp.body)
        /\ raised = "none") =>
          Holds(file, resp.body) /\ exitCode = 0

C10_Witness ==
    /\ pc = "exited"
    /\ prev.valid
    /\ prev.resp.got
    /\ prev.resp.status = 200
    /\ prev.resp.ctype = "application/pdf"
    /\ prev.exitCode = 0
    /\ resp.got
    /\ resp.status = 403
    /\ resp.ctype = "text/html"
    /\ BeginsPdf(resp.body)
    /\ resp.body # prev.resp.body
    /\ Holds(file, resp.body)
    /\ exitCode = 0

=============================================================================
